---- MODULE Spec2Model ----
(***************************************************************************)
(* Orchestration core of the osmosis swap router contract                  *)
(* (contracts/osmosis/src/commands.rs): swap initiation, the reply         *)
(* continuations, the IBC hand-off and the multi-swap queue, run by a      *)
(* CosmWasm host that dispatches sub-messages depth first and discards the *)
(* writes of a failed call.                                                *)
(***************************************************************************)
EXTENDS Integers, Sequences, FiniteSets, TLC

\* ------------------------------------------------------------------ bounds
\* longest step list handed to handle_multiswap
MaxSteps == 3
\* highest IBC packet sequence number a channel hands out
MaxSeq == 1
\* deepest nesting of calls made back into the contract by a CustomCall target
MaxDepth == 1
\* fractional digits kept by Decimal (cosmwasm_std keeps 18)
DecimalPlaces == 4
\* largest input amount of a sizing query on the shallow pool
MaxAmount == 4
\* largest output the shallow pool quotes
MaxQuote == 3

\* ------------------------------------------------------- program constants
TRANSFER_PORT == "transfer"
IBC_CALLBACK == "ibc_callback"
IBC_PACKET_LIFITIME == 604800

\* env: the contract's own address and the block time (seconds)
env == [contract |-> [address |-> "router"], block |-> [time |-> 0]]

\* ------------------------------------------------------------ option type
None == [tag |-> "None"]
Some(v) == [tag |-> "Some", v |-> v]

\* ------------------------------------------------------------ JSON memos
\* serde_cw_value::Value restricted to the shapes a memo takes: a map from
\* string keys to string values, or a bare string (a JSON value that is not a
\* map).
EmptyMap == [k \in {} |-> ""]
ValueMap(m) == [tag |-> "Map", m |-> m]
ValueString(s) == [tag |-> "String", s |-> s]

\* serde_json_wasm::from_str("{}")
from_str_empty_object == ValueMap(EmptyMap)

\* BTreeMap::insert: the key is added, or its value replaced
map_insert(m, k, v) == [x \in (DOMAIN m) \cup {k} |-> IF x = k THEN v ELSE m[x]]

\* keys in BTreeMap (lexicographic) order
KeyOrder == <<"forward", "ibc_callback">>

RECURSIVE serialize_pairs(_, _)
serialize_pairs(m, ks) ==
    IF ks = <<>> THEN <<>>
    ELSE (IF Head(ks) \in DOMAIN m THEN << <<Head(ks), m[Head(ks)]>> >> ELSE <<>>)
         \o serialize_pairs(m, Tail(ks))

\* serde_json_wasm::to_string: the JSON text, as the sequence of its
\* key/value pairs in key order for a map, and the quoted string otherwise
to_string(v) ==
    IF v.tag = "Map" THEN [err |-> "", text |-> [obj |-> serialize_pairs(v.m, KeyOrder)]]
    ELSE [err |-> "", text |-> [str |-> v.s]]

\* to_binary: the JSON encoding of a payload
to_binary(x) == [err |-> "", bin |-> [json |-> x]]

\* ------------------------------------------------------------------ storage
\* the four storage regions of state.rs
EmptyStorage ==
    [swap_reply_state |-> None,
     ibc_transfer_reply_state |-> None,
     multi_swap_state |-> None,
     awaiting_ibc_transfer |-> [s \in {} |-> None]]

swap_reply_state_exists(st) == st.swap_reply_state # None

store_swap_reply_state(st, v) == [st EXCEPT !.swap_reply_state = Some(v)]

\* loads and clears the slot; NotFound when it is empty
load_swap_reply_state(st) ==
    [err |-> IF st.swap_reply_state = None THEN "NotFound" ELSE "",
     val |-> st.swap_reply_state,
     storage |-> [st EXCEPT !.swap_reply_state = None]]

store_ibc_transfer_reply_state(st, v) == [st EXCEPT !.ibc_transfer_reply_state = Some(v)]

\* loads and clears the slot; NotFound when it is empty
load_ibc_transfer_reply_state(st) ==
    [err |-> IF st.ibc_transfer_reply_state = None THEN "NotFound" ELSE "",
     val |-> st.ibc_transfer_reply_state,
     storage |-> [st EXCEPT !.ibc_transfer_reply_state = None]]

store_multi_swap_state(st, v) == [st EXCEPT !.multi_swap_state = Some(v)]

\* loads the queue and leaves it in place; NotFound when there is none
load_multi_swap_state(st) ==
    [err |-> IF st.multi_swap_state = None THEN "NotFound" ELSE "",
     val |-> st.multi_swap_state]

remove_multi_swap_state(st) == [st EXCEPT !.multi_swap_state = None]

store_awaiting_ibc_transfer(st, sequence, v) ==
    [st EXCEPT !.awaiting_ibc_transfer =
        [s \in (DOMAIN st.awaiting_ibc_transfer) \cup {sequence} |->
            IF s = sequence THEN v ELSE st.awaiting_ibc_transfer[s]]]

\* ----------------------------------------------------------- collaborators
\* faulty variant: the first coin is taken when several are attached
one_coin_first(info) ==
    IF Len(info.funds) = 0 THEN [err |-> "NoFunds"]
    ELSE IF info.funds[1].amount = 0 THEN [err |-> "NoFunds"]
    ELSE [err |-> "", coin |-> info.funds[1]]

\* cw_utils::one_coin: exactly one coin, of a non-zero amount
one_coin(info) ==
    IF Len(info.funds) = 0 THEN [err |-> "NoFunds"]
    ELSE IF Len(info.funds) = 1
         THEN (IF info.funds[1].amount = 0 THEN [err |-> "NoFunds"]
               ELSE [err |-> "", coin |-> info.funds[1]])
         ELSE [err |-> "MultipleDenoms"]

\* osmosis_router::build_swap_msg: the pool-swap request for a swap spec, or
\* an error for a spec the router cannot route
build_swap_msg(input_coin, swap_msg) ==
    IF swap_msg.valid
    THEN [err |-> "",
          msg |-> [type |-> "MsgSwapExactAmountIn", token_in |-> input_coin,
                   routes |-> swap_msg.route, token_out_denom |-> swap_msg.out_denom]]
    ELSE [err |-> "OsmosisRouterError"]

\* osmosis_router::get_swap_amount_out_response: the realized output coin
\* decoded from the pool-swap reply
get_swap_amount_out_response(reply) ==
    IF reply.result.tag = "Ok" /\ reply.result.data # None
       /\ reply.result.data.v.type = "MsgSwapExactAmountInResponse"
    THEN [err |-> "", output_coin |-> reply.result.data.v.token_out]
    ELSE [err |-> "OsmosisRouterError"]

\* MsgTransferResponse::decode
decode_MsgTransferResponse(b) ==
    IF b.type = "MsgTransferResponse" THEN [err |-> "", sequence |-> b.sequence]
    ELSE [err |-> "DecodeError"]

\* ------------------------------------------------------------- responses
Err(e, st) == [err |-> e, storage |-> st, messages |-> <<>>]
Ok(st, msgs) == [err |-> "", storage |-> st, messages |-> msgs]

\* faulty variant: SubMsg::reply_always(msg, id)
reply_always(msg, id) == [msg |-> msg, id |-> id, reply_on |-> "always"]

\* SubMsg::reply_on_success(msg, id)
reply_on_success(msg, id) == [msg |-> msg, id |-> id, reply_on |-> "success"]

\* Response::add_message(msg): no reply is asked for
add_message(msg) == [msg |-> msg, id |-> "None", reply_on |-> "never"]

\* ---------------------------------------------------------------- swap
\* faulty variant: the check left out
reentrancy_check_skipped(st) == ""

\* faulty variant: the test of the check negated
reentrancy_check_negated(st) ==
    IF swap_reply_state_exists(st) THEN "" ELSE "ContractLocked"

\* the re-entrancy check: the error swap returns when a swap is in flight
reentrancy_check(st) ==
    IF swap_reply_state_exists(st) THEN "ContractLocked" ELSE ""

swap(st, e, info, swap_msg, after_swap_action, local_fallback_address) ==
    IF reentrancy_check(st) # "" THEN Err(reentrancy_check(st), st)
    ELSE LET input_coin == one_coin(info) IN
    IF input_coin.err # "" THEN Err(input_coin.err, st)
    ELSE LET built == build_swap_msg(input_coin.coin, swap_msg) IN
    IF built.err # "" THEN Err(built.err, st)
    ELSE LET st1 == store_swap_reply_state(st,
                        [after_swap_action |-> after_swap_action,
                         local_fallback_address |-> local_fallback_address])
         IN Ok(st1, <<reply_on_success(built.msg, "Swap")>>)

\* ------------------------------------------------ handle_after_swap_action
\* faulty variant: the send carries no coin
bank_send_empty(receiver, output_coin) ==
    [type |-> "BankSend", to_address |-> receiver, amount |-> <<>>]

\* BankMsg::Send of the output coin to the receiver
bank_send(receiver, output_coin) ==
    [type |-> "BankSend", to_address |-> receiver, amount |-> <<output_coin>>]

\* WasmMsg::Execute of the payload on the target, the output coin attached
custom_call(contract_address, msg, output_coin) ==
    [type |-> "WasmExecute", contract_addr |-> contract_address,
     msg |-> to_binary(msg).bin, funds |-> <<output_coin>>]

\* the memo sent with the transfer: the caller's memo (the empty map when
\* there is none) with the callback key set to this contract's address. A
\* memo that is not a map reaches unreachable!(), which aborts the call.
ibc_memo(e, next_memo) ==
    LET base == IF next_memo = None THEN from_str_empty_object ELSE next_memo.v IN
    IF base.tag # "Map" THEN [err |-> "Panic"]
    ELSE LET text == to_string(ValueMap(map_insert(base.m, IBC_CALLBACK, e.contract.address))) IN
         IF text.err # "" THEN [err |-> "InvalidMemo"]
         ELSE [err |-> "", memo |-> text.text]

\* faulty variant: the receiver kept as the fallback address
ibc_transfer_reply_state_receiver(after_swap_info, channel, output_coin) ==
    [local_fallback_address |-> after_swap_info.after_swap_action.receiver,
     channel |-> channel,
     denom |-> output_coin.denom,
     amount |-> output_coin.amount]

\* the record kept for the IBC-send reply
ibc_transfer_reply_state(after_swap_info, channel, output_coin) ==
    [local_fallback_address |-> after_swap_info.local_fallback_address,
     channel |-> channel,
     denom |-> output_coin.denom,
     amount |-> output_coin.amount]

MsgTransfer(e, receiver, channel, output_coin, memo) ==
    [type |-> "MsgTransfer",
     source_port |-> TRANSFER_PORT,
     source_channel |-> channel,
     token |-> Some(output_coin),
     sender |-> e.contract.address,
     receiver |-> receiver,
     timeout_height |-> None,
     timeout_timestamp |-> Some(e.block.time + IBC_PACKET_LIFITIME),
     memo |-> memo]

handle_after_swap_action(st, e, reply) ==
    LET output_token_info == get_swap_amount_out_response(reply) IN
    IF output_token_info.err # "" THEN Err(output_token_info.err, st)
    ELSE LET loaded == load_swap_reply_state(st) IN
    IF loaded.err # "" THEN Err(loaded.err, loaded.storage)
    ELSE LET after_swap_info == loaded.val.v
             action == after_swap_info.after_swap_action
             coin == output_token_info.output_coin
             st1 == loaded.storage
         IN
    IF action.tag = "BankSend"
    THEN Ok(st1, <<add_message(bank_send(action.receiver, coin))>>)
    ELSE IF action.tag = "CustomCall"
    THEN (IF to_binary(action.msg).err # "" THEN Err("Std", st1)
          ELSE Ok(st1, <<add_message(custom_call(action.contract_address, action.msg, coin))>>))
    ELSE LET m == ibc_memo(e, action.next_memo) IN
         IF m.err # "" THEN Err(m.err, st1)
         ELSE LET ibc_transfer == MsgTransfer(e, action.receiver, action.channel, coin, m.memo)
                  st2 == store_ibc_transfer_reply_state(st1,
                            ibc_transfer_reply_state(after_swap_info, action.channel, coin))
              IN Ok(st2, <<reply_on_success(ibc_transfer, "IbcTransfer")>>)

\* ----------------------------------------------- handle_ibc_transfer_reply
\* faulty variant: a reply without data is taken as a response with sequence 0
ibc_reply_data_lenient(reply) ==
    IF reply.result.tag = "Ok" /\ reply.result.data # None
    THEN [err |-> "", b |-> reply.result.data.v]
    ELSE [err |-> "", b |-> [type |-> "MsgTransferResponse", sequence |-> 0]]

\* the let-else of the first statement: the bytes of a successful reply
\* that carries data
ibc_reply_data(reply) ==
    IF reply.result.tag = "Ok" /\ reply.result.data # None
    THEN [err |-> "", b |-> reply.result.data.v]
    ELSE [err |-> "FailedIBCTransfer"]

handle_ibc_transfer_reply(st, reply) ==
    LET data == ibc_reply_data(reply) IN
    IF data.err # "" THEN Err(data.err, st)
    ELSE LET ibc_transfer_response == decode_MsgTransferResponse(data.b) IN
    IF ibc_transfer_response.err # "" THEN Err("FailedIBCTransfer", st)
    ELSE LET loaded == load_ibc_transfer_reply_state(st) IN
    IF loaded.err # "" THEN Err(loaded.err, loaded.storage)
    ELSE Ok(store_awaiting_ibc_transfer(loaded.storage,
                ibc_transfer_response.sequence, loaded.val.v), <<>>)

\* ------------------------------------------------------------- multi-swap
\* Vec::reverse
Reverse(s) == [i \in 1..Len(s) |-> s[Len(s) + 1 - i]]

\* faulty variant: the element is read and left in the vector
pop_keep(s) == [val |-> s[Len(s)], rest |-> s]

\* faulty variant: the first element is taken
pop_front(s) == [val |-> s[1], rest |-> Tail(s)]

\* Vec::pop: the last element and the vector without it
pop(s) == [val |-> s[Len(s)], rest |-> SubSeq(s, 1, Len(s) - 1)]

\* the self-addressed SwapWithAction call of one step
multiswap_step_msg(e, next_swap, local_fallback_address) ==
    [type |-> "WasmExecute",
     contract_addr |-> e.contract.address,
     msg |-> to_binary([type |-> "SwapWithAction",
                        swap_msg |-> next_swap.swap_msg,
                        after_swap_action |-> next_swap.after_swap_action,
                        local_fallback_address |-> local_fallback_address]).bin,
     funds |-> <<next_swap.amount_in>>]

handle_multiswap_reply(st, e) ==
    LET loaded == load_multi_swap_state(st) IN
    IF loaded.err # "" THEN Err(loaded.err, st)
    ELSE LET multi_swaps == loaded.val.v IN
    IF multi_swaps.swaps = <<>> THEN Ok(remove_multi_swap_state(st), <<>>)
    ELSE LET popped == pop(multi_swaps.swaps)
             swap_msg == multiswap_step_msg(e, popped.val, multi_swaps.local_fallback_address)
             st1 == store_multi_swap_state(st, [multi_swaps EXCEPT !.swaps = popped.rest])
         IN Ok(st1, <<reply_on_success(swap_msg, "MultiSwap")>>)

\* faulty variant: the check left out
multiswap_input_check_skipped(swaps) == ""

\* the emptiness check of handle_multiswap
multiswap_input_check(swaps) ==
    IF swaps = <<>> THEN "InvalidAmountOfSwaps" ELSE ""

handle_multiswap(st, e, swaps, local_fallback_address) ==
    IF multiswap_input_check(swaps) # "" THEN Err(multiswap_input_check(swaps), st)
    ELSE LET st1 == store_multi_swap_state(st,
                        [swaps |-> Reverse(swaps),
                         local_fallback_address |-> local_fallback_address])
         IN handle_multiswap_reply(st1, e)

\* ------------------------------- estimate_price_impact_twap_min_input_output
\* cosmwasm_std::Decimal: an unsigned fixed-point number, held as its count
\* of units of 10^-DecimalPlaces. Its operators abort on a negative result
\* and on a division by zero.
RECURSIVE Pow10(_)
Pow10(n) == IF n = 0 THEN 1 ELSE 10 * Pow10(n - 1)

DECIMAL_FRACTIONAL == Pow10(DecimalPlaces)

\* the Decimal n/d
Dec(n, d) == (n * DECIMAL_FRACTIONAL) \div d

\* floor(r * 10^n / c) for r < c, by long division
RECURSIVE FractionDigits(_, _, _)
FractionDigits(r, c, n) ==
    IF n = 0 THEN 0
    ELSE ((r * 10) \div c) * Pow10(n - 1) + FractionDigits((r * 10) % c, c, n - 1)

\* Decimal - Decimal
dec_sub(a, b) ==
    IF b > a THEN [err |-> "Panic"] ELSE [err |-> "", v |-> a - b]

\* Decimal / Decimal, rounded down
dec_div(a, b) ==
    IF b = 0 THEN [err |-> "Panic"]
    ELSE [err |-> "",
          v |-> (a \div b) * DECIMAL_FRACTIONAL + FractionDigits(a % b, b, DecimalPlaces)]

\* Decimal::from_str on the texts the pool answers with
DecimalTexts == {"0.5", "1.00", "2"}
from_str(text) ==
    IF text = "0.5" THEN [err |-> "", v |-> Dec(1, 2)]
    ELSE IF text = "1.00" THEN [err |-> "", v |-> Dec(1, 1)]
    ELSE IF text = "2" THEN [err |-> "", v |-> Dec(2, 1)]
    ELSE [err |-> "ParseError"]

\* the text of a denom alone (no amount in front), and of a coin
DenomText(denom) == [amount |-> None, denom |-> denom]
CoinText(coin) == [amount |-> Some(coin.amount), denom |-> coin.denom]

\* the pools the pool manager knows
Pools == {1, 2}

\* PoolmanagerQuerier::pool
query_pool(pool_id) ==
    IF pool_id \in Pools THEN [err |-> ""] ELSE [err |-> "Std"]

\* the request of estimate_single_pool_swap_exact_amount_in as the loop
\* builds it: the pool, the input coin's denom and the output denom
estimate_request(pool_id, input_coin, to_coin_denom) ==
    [pool_id |-> pool_id, token_in |-> DenomText(input_coin.denom),
     token_out_denom |-> to_coin_denom]

\* the adjusted max_price_impact:
\* max_price_impact - (spot_price - twap_price) / twap_price
adjusted_max_price_impact(max_price_impact, spot_price, twap_price) ==
    LET diff == dec_sub(spot_price, twap_price) IN
    IF diff.err # "" THEN [err |-> "Panic"]
    ELSE LET price_deviation == dec_div(diff.v, twap_price) IN
    IF price_deviation.err # "" THEN [err |-> "Panic"]
    ELSE dec_sub(max_price_impact, price_deviation.v)

\* the part before the loop: the pool, its spot price, the adjusted bound
estimate_setup(args, spot_price_str) ==
    IF query_pool(args.pool_id).err # ""
    THEN [err |-> "Std", spot_price |-> 0, max_price_impact |-> 0]
    ELSE LET spot_price == from_str(spot_price_str) IN
    IF spot_price.err # ""
    THEN [err |-> "InvalidSpotPrice", spot_price |-> 0, max_price_impact |-> 0]
    ELSE LET bound == adjusted_max_price_impact(args.max_price_impact, spot_price.v,
                                                args.twap_price) IN
    IF bound.err # ""
    THEN [err |-> "Panic", spot_price |-> spot_price.v, max_price_impact |-> 0]
    ELSE [err |-> "", spot_price |-> spot_price.v, max_price_impact |-> bound.v]

\* faulty variant: no check of the quoted output
token_out_is_zero_skipped(token_out) == FALSE

\* token_out.amount.is_zero()
token_out_is_zero(token_out) == token_out.amount = 0

\* faulty variant: the whole part of the quotient
trade_price_whole(token_out_amount, input_amount) ==
    IF input_amount = 0 THEN [err |-> "Panic"]
    ELSE [err |-> "", v |-> (token_out_amount \div input_amount) * DECIMAL_FRACTIONAL]

\* curr_trade_price = token_out.amount / input_coin.amount, a Decimal (it is
\* subtracted from the Decimal spot_price)
trade_price(token_out_amount, input_amount) ==
    IF input_amount = 0 THEN [err |-> "Panic"]
    ELSE [err |-> "",
          v |-> (token_out_amount \div input_amount) * DECIMAL_FRACTIONAL
                + FractionDigits(token_out_amount % input_amount, input_amount, DecimalPlaces)]

\* price_deviation = (spot_price - curr_trade_price) / curr_trade_price
trade_price_deviation(spot_price, curr_trade_price) ==
    LET diff == dec_sub(spot_price, curr_trade_price) IN
    IF diff.err # "" THEN [err |-> "Panic"]
    ELSE dec_div(diff.v, curr_trade_price)

\* faulty variant: the amount is halved but kept at one or more
halve_floor_one(amount) == IF amount \div 2 = 0 THEN 1 ELSE amount \div 2

\* input_coin.amount / Uint128::from(2u64)
halve(amount) == amount \div 2

\* one turn of the loop with the pool's answer to the estimate query: the
\* outcome (an error, a result, or the next candidate) and what was computed
estimate_iteration(input_coin, spot_price, max_price_impact, response) ==
    LET trade == [amount |-> input_coin.amount, response |-> response] IN
    IF response.err # "" THEN [err |-> "Std", result |-> None, trade |-> trade]
    ELSE LET token_out == response.token_out_amount IN
    IF token_out_is_zero(token_out)
    THEN [err |-> "ZeroTokenOut", result |-> None, trade |-> trade]
    ELSE LET curr_trade_price == trade_price(token_out.amount, input_coin.amount) IN
    IF curr_trade_price.err # "" THEN [err |-> "Panic", result |-> None, trade |-> trade]
    ELSE LET price_deviation == trade_price_deviation(spot_price, curr_trade_price.v) IN
    IF price_deviation.err # "" THEN [err |-> "Panic", result |-> None, trade |-> trade]
    ELSE IF price_deviation.v <= max_price_impact
    THEN [err |-> "",
          result |-> Some([amount_in |-> input_coin, amount_out |-> token_out]),
          trade |-> trade]
    ELSE [err |-> "", result |-> None, trade |-> trade,
          input_coin |-> [input_coin EXCEPT !.amount = halve(input_coin.amount)]]

\* ------------------------------------------------------------ entry points
\* the reply entry point: the handler of a reply identifier
HandleReply(id, reply, st) ==
    IF id = "Swap" THEN handle_after_swap_action(st, env, reply)
    ELSE IF id = "IbcTransfer" THEN handle_ibc_transfer_reply(st, reply)
    ELSE handle_multiswap_reply(st, env)

\* the name of the handler of a reply identifier
ReplyHandlerName(id) ==
    IF id = "Swap" THEN "handle_after_swap_action"
    ELSE IF id = "IbcTransfer" THEN "handle_ibc_transfer_reply"
    ELSE "handle_multiswap_reply"

\* ------------------------------------------------------------------ inputs
Fallbacks == {"fb1", "fb2"}

Coin(denom, amount) == [denom |-> denom, amount |-> amount]

\* swap specs: one the router can route, one it cannot
GoodSwapMsg == [valid |-> TRUE, route |-> "pool1", out_denom |-> "uosmo"]
BadSwapMsg == [valid |-> FALSE, route |-> "nopool", out_denom |-> "uosmo"]
SwapMsgs == {GoodSwapMsg, BadSwapMsg}

BankSend(receiver) == [tag |-> "BankSend", receiver |-> receiver]
CustomCall(contract_address, msg) ==
    [tag |-> "CustomCall", contract_address |-> contract_address, msg |-> msg]
IbcTransfer(receiver, channel, next_memo) ==
    [tag |-> "IbcTransfer", receiver |-> receiver, channel |-> channel,
     next_memo |-> next_memo]

MapMemos ==
    {ValueMap(EmptyMap),
     ValueMap([k \in {"forward"} |-> "next"]),
     ValueMap([k \in {"forward", "ibc_callback"} |-> IF k = "forward" THEN "next" ELSE "other"])}
Memos == {None} \cup {Some(m) : m \in MapMemos} \cup {Some(ValueString("memo"))}

AfterSwapActions ==
    {BankSend("r1"), CustomCall("c1", "payload")}
    \cup {IbcTransfer("r1", "ch1", m) : m \in Memos}

\* the funds a caller attaches: none, one coin, a coin of amount zero, two coins
FundsSets ==
    {<<>>, <<Coin("uatom", 100)>>, <<Coin("uatom", 0)>>,
     <<Coin("uatom", 100), Coin("uusdc", 5)>>}

\* the SwapWithAction calls a transaction makes: every action with one coin
\* and a routable spec, and every other funds and spec once
SwapArgs(funds, sm, a, fb) ==
    [funds |-> funds, swap_msg |-> sm, after_swap_action |-> a,
     local_fallback_address |-> fb]
SwapInputs ==
    {SwapArgs(<<Coin("uatom", 100)>>, GoodSwapMsg, a, "fb1") : a \in AfterSwapActions}
    \cup {SwapArgs(<<Coin("uatom", 100)>>, GoodSwapMsg, IbcTransfer("r2", "ch2", None), "fb2")}
    \cup {SwapArgs(f, sm, BankSend("r1"), "fb2") : f \in FundsSets, sm \in SwapMsgs}

\* the amounts a pool swap pays out
OutAmounts == {97}

\* the steps of a multi-swap, each with amount_in = 100 uatom
Step(sm, a) == [swap_msg |-> sm, after_swap_action |-> a, amount_in |-> Coin("uatom", 100)]
GoodSteps ==
    {Step(GoodSwapMsg, a) :
        a \in {BankSend("r1"), CustomCall("c1", "payload"), IbcTransfer("r1", "ch1", None)}}
BadStep == Step(BadSwapMsg, BankSend("r1"))

SeqsUpTo(S, n) == UNION {[1..k -> S] : k \in 0..n}

\* the step lists a transaction submits: the flow stops at a step the router
\* cannot route, so such a step comes last
StepLists ==
    SeqsUpTo(GoodSteps, MaxSteps)
    \cup {Append(l, BadStep) : l \in SeqsUpTo(GoodSteps, MaxSteps - 1)}

\* the step lists whose sub-messages can all succeed: one step or more, each
\* routable, and no more IBC transfers than a channel has sequence numbers
DrainStepLists ==
    {l \in SeqsUpTo(GoodSteps, MaxSteps) :
        /\ Len(l) >= 1
        /\ Cardinality({i \in DOMAIN l : l[i].after_swap_action.tag = "IbcTransfer"}) <= MaxSeq}

\* what a CustomCall target sends back into the contract
ReentrantSwapActions == {CustomCall("c1", "payload")}
ReentrantStepLists ==
    {<<>>,
     <<Step(GoodSwapMsg, BankSend("r2"))>>}

Channels == {"ch1", "ch2"}

\* the sizing queries: one million uosmo on the deep pool, the small amounts
\* on the shallow pool, and a query of a pool that does not exist
MaxPriceImpacts == {Dec(5, 100), Dec(1, 1)}
TwapPrices == {Dec(1, 1), Dec(2, 1)}
EstimateCoins ==
    {[coin |-> Coin("uosmo", 1000000), pool_id |-> 1]}
    \cup {[coin |-> Coin("uatom", a), pool_id |-> 2] : a \in 0..MaxAmount}
    \cup {[coin |-> Coin("uatom", 1), pool_id |-> 3]}
EstimateInputs ==
    {[input_coin |-> c.coin, to_coin_denom |-> "uusdc", pool_id |-> c.pool_id,
      max_price_impact |-> m, twap_price |-> t] :
        c \in EstimateCoins, m \in MaxPriceImpacts, t \in TwapPrices}

\* what the pool manager answers: the spot price as a text, and to an
\* estimate query an output coin or an error
SpotPriceTexts == DecimalTexts \cup {"oops"}
EstimateAmounts(pool_id) == IF pool_id = 1 THEN {0, 485000, 970000} ELSE 0..MaxQuote
EstimateResponses(request) ==
    {[err |-> "", token_out_amount |-> Coin(request.token_out_denom, q)] :
        q \in EstimateAmounts(request.pool_id)}
    \cup {[err |-> "Std"]}

\* -------------------------------------------------------------------- state
VARIABLES
    storage,    \* the contract's four storage regions
    ibc_seq,    \* the IBC module's next packet sequence number of each channel
    stack,      \* the sub-messages in progress, the innermost last
    tx,         \* the transaction in progress (or the last one): its start state
    lastCall,   \* the handler call of the last step, if it made one: its input,
                \* result and writes
    est         \* the sizing query in progress: its inputs, candidate and outcome

vars == <<storage, ibc_seq, stack, tx, lastCall, est>>

Snapshot(st, seq) == [storage |-> st, ibc_seq |-> seq]

NoCall ==
    [fn |-> "none", args |-> None, pre |-> EmptyStorage, err |-> "",
     messages |-> <<>>, post |-> EmptyStorage, base |-> <<>>, resumed |-> None]

Call(fn, args, pre, r, base, resumed) ==
    [fn |-> fn, args |-> args, pre |-> pre, err |-> r.err, messages |-> r.messages,
     post |-> r.storage, base |-> base, resumed |-> resumed]

\* no sizing query in progress
NoEstimate ==
    [pc |-> "idle", args |-> None, input_coin |-> None, spot_price |-> 0,
     max_price_impact |-> 0, tried |-> <<>>, k |-> 0, result |-> None, err |-> ""]

NoTx(st, seq) ==
    [kind |-> "none", start |-> Snapshot(st, seq), steps |-> <<>>, fallback |-> "",
     emitted |-> 0, replies |-> 0]

Init ==
    /\ storage = EmptyStorage
    /\ ibc_seq = [c \in Channels |-> 1]
    /\ stack = <<>>
    /\ tx = NoTx(EmptyStorage, [c \in Channels |-> 1])
    /\ lastCall = NoCall
    /\ est = NoEstimate

\* --------------------------------------------------------------------- host
\* the frames of the sub-messages a response carries, the first on top
Frames(msgs, snap, by) ==
    [i \in 1..Len(msgs) |->
        [sub |-> msgs[Len(msgs) + 1 - i], status |-> "pending", snap |-> snap, by |-> by]]

\* a call made by a CustomCall target: its caller catches its failure
ExtCallFrame(snap) ==
    [sub |-> [msg |-> [type |-> "ExtCall"], id |-> "None", reply_on |-> "catch"],
     status |-> "running", snap |-> snap, by |-> None]

Front(s) == SubSeq(s, 1, Len(s) - 1)
Top(s) == s[Len(s)]

FailedReply == [result |-> [tag |-> "Err"]]
OkReply(data) == [result |-> [tag |-> "Ok", data |-> data]]

\* a failure reaching the frames stk: each sub-message it passes is undone;
\* it stops at a caller that catches it (a CustomCall target, or a
\* sub-message whose reply is asked for on error), and otherwise undoes the
\* whole transaction
RECURSIVE Unwind(_, _)
Unwind(stk, start) ==
    IF stk = <<>>
    THEN [storage |-> start.storage, ibc_seq |-> start.ibc_seq, stack |-> <<>>]
    ELSE LET top == Top(stk) IN
         IF top.sub.reply_on = "catch"
         THEN [storage |-> top.snap.storage, ibc_seq |-> top.snap.ibc_seq,
               stack |-> Front(stk)]
         ELSE IF top.sub.reply_on \in {"always", "error"}
         THEN LET r == HandleReply(top.sub.id, FailedReply, top.snap.storage) IN
              IF r.err = ""
              THEN [storage |-> r.storage, ibc_seq |-> top.snap.ibc_seq,
                    stack |-> Front(stk) \o
                        Frames(r.messages, Snapshot(r.storage, top.snap.ibc_seq),
                               [fn |-> ReplyHandlerName(top.sub.id), args |-> None])]
              ELSE Unwind(Front(stk), start)
         ELSE Unwind(Front(stk), start)

\* the state after a handler called above the frames base has returned r:
\* its writes and sub-messages when it succeeded, the failure otherwise
After(base, seq, r, by, start) ==
    IF r.err = ""
    THEN [storage |-> r.storage, ibc_seq |-> seq,
          stack |-> base \o Frames(r.messages, Snapshot(r.storage, seq), by)]
    ELSE Unwind(base, start)

Depth(stk) == Cardinality({i \in DOMAIN stk : stk[i].sub.msg.type = "ExtCall"})

IsSelfCall(f) ==
    f.sub.msg.type = "WasmExecute" /\ f.sub.msg.contract_addr = env.contract.address
IsCustomCall(f) ==
    f.sub.msg.type = "WasmExecute" /\ f.sub.msg.contract_addr # env.contract.address

Apply(next) ==
    /\ storage' = next.storage
    /\ ibc_seq' = next.ibc_seq
    /\ stack' = next.stack
    /\ UNCHANGED est

\* a transaction that executes SwapWithAction
ExecuteSwap ==
    /\ stack = <<>>
    /\ tx.kind = "none"
    /\ \E args \in SwapInputs :
        LET start == Snapshot(storage, ibc_seq)
            r == swap(storage, env, [funds |-> args.funds], args.swap_msg,
                      args.after_swap_action, args.local_fallback_address)
        IN /\ Apply(After(<<>>, ibc_seq, r, [fn |-> "swap", args |-> args], start))
           /\ tx' = [kind |-> "swap", start |-> start, steps |-> <<>>,
                     fallback |-> args.local_fallback_address,
                     emitted |-> 0, replies |-> 0]
           /\ lastCall' = Call("swap", args, storage, r, <<>>, None)

\* a transaction that executes MultiSwap with one of the step lists
ExecuteMultiSwapOf(lists) ==
    /\ stack = <<>>
    /\ tx.kind = "none"
    /\ \E swaps \in lists, fb \in {"fb1"} :
        LET start == Snapshot(storage, ibc_seq)
            args == [swaps |-> swaps, local_fallback_address |-> fb]
            r == handle_multiswap(storage, env, swaps, fb)
        IN /\ Apply(After(<<>>, ibc_seq, r, [fn |-> "handle_multiswap", args |-> args], start))
           /\ tx' = [kind |-> "multiswap", start |-> start, steps |-> swaps, fallback |-> fb,
                     emitted |-> Len(r.messages), replies |-> 0]
           /\ lastCall' = Call("handle_multiswap", args, storage, r, <<>>, None)

ExecuteMultiSwap == ExecuteMultiSwapOf(StepLists)

\* the host runs a self-addressed SwapWithAction sub-message
DispatchSelfSwap ==
    /\ stack # <<>>
    /\ Top(stack).status = "pending"
    /\ IsSelfCall(Top(stack))
    /\ LET f == Top(stack)
           m == f.sub.msg.msg.json
           args == [funds |-> f.sub.msg.funds, swap_msg |-> m.swap_msg,
                    after_swap_action |-> m.after_swap_action,
                    local_fallback_address |-> m.local_fallback_address]
           r == swap(storage, env, [funds |-> f.sub.msg.funds], m.swap_msg,
                     m.after_swap_action, m.local_fallback_address)
           base == Front(stack) \o <<[f EXCEPT !.status = "running"]>>
       IN /\ Apply(After(base, ibc_seq, r, [fn |-> "swap", args |-> args], tx.start))
          /\ lastCall' = Call("swap", args, storage, r, base, None)
          /\ UNCHANGED tx

\* the sub-message on top has succeeded with the reply `reply`: the host
\* calls the reply handler when a reply on success was asked for
Complete(reply, seq) ==
    LET f == Top(stack)
        base == Front(stack)
    IN IF f.sub.reply_on \in {"success", "always"}
       THEN LET r == HandleReply(f.sub.id, reply, storage)
                fn == ReplyHandlerName(f.sub.id)
                top == base = <<>> /\ f.sub.id = "MultiSwap"
            IN /\ Apply(After(base, seq, r, [fn |-> fn, args |-> f.by.args], tx.start))
               /\ lastCall' = Call(fn, [reply |-> reply], storage, r, base,
                                   Some([sub |-> f.sub, by |-> f.by]))
               /\ tx' = IF top
                        THEN [tx EXCEPT !.replies = @ + 1,
                                        !.emitted = @ + (IF r.err = "" THEN Len(r.messages) ELSE 0)]
                        ELSE tx
       ELSE /\ Apply([storage |-> storage, ibc_seq |-> seq, stack |-> base])
            /\ lastCall' = NoCall
            /\ UNCHANGED tx

\* the pool executes the swap and pays out
PoolSwapOk ==
    /\ stack # <<>>
    /\ Top(stack).sub.msg.type = "MsgSwapExactAmountIn"
    /\ \E amount \in OutAmounts :
        Complete(OkReply(Some([type |-> "MsgSwapExactAmountInResponse",
                               token_out |-> Coin(Top(stack).sub.msg.token_out_denom, amount)])),
                 ibc_seq)

\* the bank module sends the coins
BankSendOk ==
    /\ stack # <<>>
    /\ Top(stack).sub.msg.type = "BankSend"
    /\ Complete(OkReply(None), ibc_seq)

\* the IBC module sends the packet and answers with its sequence number
IbcTransferOk ==
    /\ stack # <<>>
    /\ Top(stack).sub.msg.type = "MsgTransfer"
    /\ LET ch == Top(stack).sub.msg.source_channel IN
        /\ ibc_seq[ch] <= MaxSeq
        /\ Complete(OkReply(Some([type |-> "MsgTransferResponse", sequence |-> ibc_seq[ch]])),
                    [ibc_seq EXCEPT ![ch] = @ + 1])

\* the CustomCall target returns
CustomCallOk ==
    /\ stack # <<>>
    /\ IsCustomCall(Top(stack))
    /\ Complete(OkReply(None), ibc_seq)

\* the CustomCall target executes SwapWithAction on this contract
CustomCallReenterSwap ==
    /\ stack # <<>>
    /\ IsCustomCall(Top(stack))
    /\ Depth(stack) < MaxDepth
    /\ \E a \in ReentrantSwapActions :
        LET args == [funds |-> <<Coin("uatom", 100)>>, swap_msg |-> GoodSwapMsg,
                     after_swap_action |-> a, local_fallback_address |-> "fb2"]
            r == swap(storage, env, [funds |-> args.funds], args.swap_msg, a, "fb2")
            base == stack \o <<ExtCallFrame(Snapshot(storage, ibc_seq))>>
        IN /\ Apply(After(base, ibc_seq, r, [fn |-> "swap", args |-> args], tx.start))
           /\ lastCall' = Call("swap", args, storage, r, base, None)
           /\ UNCHANGED tx

\* the CustomCall target executes MultiSwap on this contract
CustomCallReenterMultiSwap ==
    /\ stack # <<>>
    /\ IsCustomCall(Top(stack))
    /\ Depth(stack) < MaxDepth
    /\ \E swaps \in ReentrantStepLists :
        LET args == [swaps |-> swaps, local_fallback_address |-> "fb2"]
            r == handle_multiswap(storage, env, swaps, "fb2")
            base == stack \o <<ExtCallFrame(Snapshot(storage, ibc_seq))>>
        IN /\ Apply(After(base, ibc_seq, r, [fn |-> "handle_multiswap", args |-> args], tx.start))
           /\ lastCall' = Call("handle_multiswap", args, storage, r, base, None)
           /\ UNCHANGED tx

\* a call made by the CustomCall target has finished: control returns to it
ReturnToCaller ==
    /\ stack # <<>>
    /\ Top(stack).sub.msg.type = "ExtCall"
    /\ stack' = Front(stack)
    /\ lastCall' = NoCall
    /\ UNCHANGED <<storage, ibc_seq, tx, est>>

\* a self-addressed call has finished, with all it set off: the host
\* delivers its reply
SelfSwapDone ==
    /\ stack # <<>>
    /\ IsSelfCall(Top(stack))
    /\ Top(stack).status = "running"
    /\ Complete(OkReply(None), ibc_seq)

\* the sub-message on top fails in the host (funds missing, slippage, a
\* closed channel, the target's own error)
SubMsgFails ==
    /\ stack # <<>>
    /\ Top(stack).sub.msg.type # "ExtCall"
    /\ ~(IsSelfCall(Top(stack)) /\ Top(stack).status = "running")
    /\ Apply(Unwind(stack, tx.start))
    /\ lastCall' = NoCall
    /\ UNCHANGED tx

\* the transaction is over: committed, or undone as a whole
TxEnd ==
    /\ stack = <<>>
    /\ tx.kind # "none"
    /\ tx' = NoTx(storage, ibc_seq)
    /\ lastCall' = NoCall
    /\ UNCHANGED <<storage, ibc_seq, stack, est>>

Next ==
    \/ ExecuteSwap
    \/ ExecuteMultiSwap
    \/ DispatchSelfSwap
    \/ PoolSwapOk
    \/ BankSendOk
    \/ IbcTransferOk
    \/ CustomCallOk
    \/ CustomCallReenterSwap
    \/ CustomCallReenterMultiSwap
    \/ ReturnToCaller
    \/ SelfSwapDone
    \/ SubMsgFails
    \/ TxEnd

Spec == Init /\ [][Next]_vars

\* ------------------------------------------- one multi-swap, nothing fails
\* One transaction that executes MultiSwap and whose sub-messages all
\* succeed. The host delivers the reply of every sub-message it accepted, and
\* the target of a CustomCall returns in the end (its gas is limited).
ExecuteGoodMultiSwap == ExecuteMultiSwapOf(DrainStepLists)

NextDrain ==
    \/ ExecuteGoodMultiSwap
    \/ DispatchSelfSwap
    \/ PoolSwapOk
    \/ BankSendOk
    \/ IbcTransferOk
    \/ CustomCallOk
    \/ CustomCallReenterSwap
    \/ CustomCallReenterMultiSwap
    \/ ReturnToCaller
    \/ SelfSwapDone

SpecDrain ==
    /\ Init
    /\ [][NextDrain]_vars
    /\ WF_vars(DispatchSelfSwap)
    /\ WF_vars(PoolSwapOk)
    /\ WF_vars(BankSendOk)
    /\ WF_vars(IbcTransferOk)
    /\ SF_vars(CustomCallOk)
    /\ WF_vars(ReturnToCaller)
    /\ WF_vars(SelfSwapDone)

\* ------------------------------------------------- handlers called directly
\* The entry points called one at a time, in any order and with any reply,
\* each call a transaction of its own: what a test with mock dependencies
\* does. A failed call's writes are discarded.
SwapReplies ==
    {OkReply(Some([type |-> "MsgSwapExactAmountInResponse", token_out |-> Coin("uosmo", 97)])),
     OkReply(None),
     FailedReply}

IbcTransferReplies ==
    {OkReply(Some([type |-> "MsgTransferResponse", sequence |-> n])) : n \in 1..MaxSeq}
    \cup {OkReply(Some([type |-> "Garbage"])), OkReply(None), FailedReply}

Commit(r) ==
    /\ storage' = (IF r.err = "" THEN r.storage ELSE storage)
    /\ UNCHANGED <<ibc_seq, stack, tx, est>>

CallSwap ==
    \E args \in SwapInputs :
        LET r == swap(storage, env, [funds |-> args.funds], args.swap_msg,
                      args.after_swap_action, args.local_fallback_address)
        IN /\ Commit(r)
           /\ lastCall' = Call("swap", args, storage, r, <<>>, None)

CallSwapReply ==
    \E reply \in SwapReplies :
        LET r == HandleReply("Swap", reply, storage)
        IN /\ Commit(r)
           /\ lastCall' = Call("handle_after_swap_action", [reply |-> reply], storage, r, <<>>, None)

CallIbcTransferReply ==
    \E reply \in IbcTransferReplies :
        LET r == HandleReply("IbcTransfer", reply, storage)
        IN /\ Commit(r)
           /\ lastCall' = Call("handle_ibc_transfer_reply", [reply |-> reply], storage, r, <<>>, None)

NextCalls ==
    \/ CallSwap
    \/ CallSwapReply
    \/ CallIbcTransferReply

SpecCalls == Init /\ [][NextCalls]_vars

\* ------------------------------------------------------------ sizing query
\* a sizing query starts: the pool and its spot price are fetched and the
\* bound adjusted
EstimateStart ==
    /\ est.pc = "idle"
    /\ \E args \in EstimateInputs, spot_price_str \in SpotPriceTexts :
        LET r == estimate_setup(args, spot_price_str) IN
        est' = [NoEstimate EXCEPT !.pc = IF r.err # "" THEN "done" ELSE "loop",
                                  !.args = Some(args),
                                  !.input_coin = args.input_coin,
                                  !.spot_price = r.spot_price,
                                  !.max_price_impact = r.max_price_impact,
                                  !.err = r.err]
    /\ UNCHANGED <<storage, ibc_seq, stack, tx, lastCall>>

\* one turn of the loop: the estimate query, then a result, an error or the
\* halved candidate
EstimateIterate ==
    /\ est.pc = "loop"
    /\ LET request == estimate_request(est.args.v.pool_id, est.input_coin,
                                       est.args.v.to_coin_denom) IN
       \E response \in EstimateResponses(request) :
        LET r == estimate_iteration(est.input_coin, est.spot_price,
                                    est.max_price_impact, response)
            tried == Append(est.tried, [request |-> request, amount |-> r.trade.amount,
                                        response |-> response])
        IN est' = IF r.err # "" \/ r.result # None
                  THEN [est EXCEPT !.pc = "done", !.tried = tried,
                                   !.result = r.result, !.err = r.err]
                  ELSE [est EXCEPT !.tried = tried, !.input_coin = r.input_coin,
                                   !.k = @ + 1]
    /\ UNCHANGED <<storage, ibc_seq, stack, tx, lastCall>>

NextSizing ==
    \/ EstimateStart
    \/ EstimateIterate

SpecSizing == Init /\ [][NextSizing]_vars


\* ------------------------------------------------------------------ claims
\* C1: whenever swap is called while a SwapReplyState is present, whatever
\* the coins, swap spec, after-swap action and fallback address, the call
\* fails with ContractLocked, emits nothing and leaves the stored
\* SwapReplyState (and the rest of storage) as it was.
C1_Reentrancy ==
    (lastCall.fn = "swap" /\ lastCall.pre.swap_reply_state # None)
    => /\ lastCall.err = "ContractLocked"
       /\ lastCall.messages = <<>>
       /\ lastCall.post = lastCall.pre
       /\ storage = lastCall.pre

\* a swap with another action and fallback address than the stored ones was
\* refused
C1_Witness ==
    /\ lastCall.fn = "swap"
    /\ lastCall.pre.swap_reply_state # None
    /\ lastCall.err = "ContractLocked"
    /\ lastCall.args.after_swap_action
         # lastCall.pre.swap_reply_state.v.after_swap_action
    /\ lastCall.args.local_fallback_address
         # lastCall.pre.swap_reply_state.v.local_fallback_address
    /\ storage.swap_reply_state = lastCall.pre.swap_reply_state

\* the replies C7 is about: a failure, a success without data, a success
\* whose data is no transfer response
C7_BadReply(reply) ==
    \/ reply.result.tag = "Err"
    \/ reply.result.data = None
    \/ reply.result.data.v.type # "MsgTransferResponse"

\* C7: handle_ibc_transfer_reply fails with FailedIBCTransfer on a failed
\* reply, a success without data and a success with undecodable data; the
\* IbcTransferReplyState is not consumed and no AwaitingIbcTransfer record is
\* stored.
C7_FailedIbcTransfer ==
    (lastCall.fn = "handle_ibc_transfer_reply" /\ C7_BadReply(lastCall.args.reply))
    => /\ lastCall.err = "FailedIBCTransfer"
       /\ lastCall.messages = <<>>
       /\ lastCall.post = lastCall.pre
       /\ storage.ibc_transfer_reply_state = lastCall.pre.ibc_transfer_reply_state
       /\ storage.awaiting_ibc_transfer = lastCall.pre.awaiting_ibc_transfer

\* an undecodable reply was refused while an IbcTransferReplyState was
\* waiting, and it is still there
C7_Witness ==
    /\ lastCall.fn = "handle_ibc_transfer_reply"
    /\ lastCall.args.reply.result.tag = "Ok"
    /\ lastCall.args.reply.result.data # None
    /\ lastCall.args.reply.result.data.v.type = "Garbage"
    /\ lastCall.err = "FailedIBCTransfer"
    /\ lastCall.pre.ibc_transfer_reply_state # None
    /\ storage.ibc_transfer_reply_state = lastCall.pre.ibc_transfer_reply_state

\* the swap call whose continuation the last call resumed
ResumedSwap == lastCall.resumed.v.by.args

\* the output coin the pool reported in the reply the last call handled
ReplyCoin == lastCall.args.reply.result.data.v.token_out

\* whether message m carries out after-swap action a with the coin
Executes(m, a, coin) ==
    IF a.tag = "BankSend"
    THEN m.type = "BankSend" /\ m.to_address = a.receiver /\ m.amount = <<coin>>
    ELSE IF a.tag = "CustomCall"
    THEN /\ m.type = "WasmExecute"
         /\ m.contract_addr = a.contract_address
         /\ m.msg = [json |-> a.msg]
         /\ m.funds = <<coin>>
    ELSE /\ m.type = "MsgTransfer"
         /\ m.receiver = a.receiver
         /\ m.source_channel = a.channel
         /\ m.token = Some(coin)

\* C2: when handle_after_swap_action has handled a successful swap reply,
\* it has emitted exactly one message, that message carries out the
\* AfterSwapAction given to the swap call being resumed (bank send to the
\* receiver, call of contract_address, or IBC transfer to receiver/channel),
\* the host holds it once, and the SwapReplyState slot is empty.
C2_ExactlyOnceContinuation ==
    (lastCall.fn = "handle_after_swap_action" /\ lastCall.err = "" /\ lastCall.resumed # None)
    => /\ Len(lastCall.messages) = 1
       /\ Executes(lastCall.messages[1].msg, ResumedSwap.after_swap_action, ReplyCoin)
       /\ Len(stack) = Len(lastCall.base) + 1
       /\ Top(stack).sub = lastCall.messages[1]
       /\ lastCall.post.swap_reply_state = None
       /\ storage.swap_reply_state = None

\* the continuation of a multi-swap step with an IbcTransfer action ran
C2_Witness ==
    /\ lastCall.fn = "handle_after_swap_action"
    /\ lastCall.err = ""
    /\ lastCall.resumed # None
    /\ ResumedSwap.after_swap_action.tag = "IbcTransfer"
    /\ Len(stack) = 2
    /\ Top(stack).sub.msg.type = "MsgTransfer"
    /\ storage.swap_reply_state = None

\* C3: in a multi-swap transaction the self-addressed swap calls are emitted
\* in submission order (the k-th call emitted carries the k-th submitted
\* step), and the MultiSwapState record is not removed while the flow is
\* still running, that is before the last submitted step has completed.
C3_MultiSwapOrdering ==
    (tx.kind = "multiswap" /\ stack # <<>>)
    => /\ tx.emitted \in 1..Len(tx.steps)
       /\ stack[1].sub = reply_on_success(
              multiswap_step_msg(env, tx.steps[tx.emitted], tx.fallback), "MultiSwap")
       /\ storage.multi_swap_state # None

\* the ordering half of C3 alone
C3_OrderOnly ==
    (tx.kind = "multiswap" /\ stack # <<>>)
    => /\ tx.emitted \in 1..Len(tx.steps)
       /\ stack[1].sub = reply_on_success(
              multiswap_step_msg(env, tx.steps[tx.emitted], tx.fallback), "MultiSwap")

\* the last call handled the reply of a step of the transaction's own
\* three-step multi-swap
C4_StepReply(k) ==
    /\ tx.kind = "multiswap"
    /\ Len(tx.steps) = 3
    /\ lastCall.fn = "handle_multiswap_reply"
    /\ lastCall.base = <<>>
    /\ lastCall.err = ""
    /\ tx.replies = k

\* C4 as claimed: in a three-step multi-swap the stored queue has length 2
\* once the first step's reply has been handled, and there is no
\* MultiSwapState once the third step's reply has been handled.
C4_ThreeStepScenario ==
    /\ C4_StepReply(1) =>
         /\ storage.multi_swap_state # None
         /\ Len(storage.multi_swap_state.v.swaps) = 2
    /\ C4_StepReply(3) => storage.multi_swap_state = None

\* C4 as amended: the stored queue has length 2 when the first step's reply
\* arrives and length 1 once that reply has been handled; there is no
\* MultiSwapState once the third step's reply has been handled.
C4_Amended ==
    /\ C4_StepReply(1) =>
         /\ lastCall.pre.multi_swap_state # None
         /\ Len(lastCall.pre.multi_swap_state.v.swaps) = 2
         /\ storage.multi_swap_state # None
         /\ Len(storage.multi_swap_state.v.swaps) = 1
    /\ C4_StepReply(3) => storage.multi_swap_state = None

\* the third reply of a three-step multi-swap was handled
C4_Witness ==
    /\ C4_StepReply(3)
    /\ lastCall.pre.multi_swap_state # None
    /\ storage.multi_swap_state = None
    /\ stack = <<>>

\* the first reply of a three-step multi-swap was handled
C4_WitnessFirst ==
    /\ C4_StepReply(1)
    /\ Len(storage.multi_swap_state.v.swaps) = 1

\* C5: handle_multiswap called with an empty step list fails with
\* InvalidAmountOfSwaps before any write: no MultiSwapState is stored, a
\* stored one is left as it is, and no message is emitted.
C5_EmptyMultiSwap ==
    (lastCall.fn = "handle_multiswap" /\ lastCall.args.swaps = <<>>)
    => /\ lastCall.err = "InvalidAmountOfSwaps"
       /\ lastCall.messages = <<>>
       /\ lastCall.post = lastCall.pre
       /\ storage = lastCall.pre

\* an empty list was refused while a queue with a pending step was stored
C5_Witness ==
    /\ lastCall.fn = "handle_multiswap"
    /\ lastCall.args.swaps = <<>>
    /\ lastCall.err = "InvalidAmountOfSwaps"
    /\ lastCall.pre.multi_swap_state # None
    /\ lastCall.pre.multi_swap_state.v.swaps # <<>>
    /\ storage.multi_swap_state = lastCall.pre.multi_swap_state

\* C6: a call of handle_multiswap made while a MultiSwapState with
\* unexecuted steps exists (also a call made by the target of a step's
\* CustomCall) does not replace or discard those pending steps.
C6_NoConcurrentMultiSwap ==
    (/\ lastCall.fn = "handle_multiswap"
     /\ lastCall.pre.multi_swap_state # None
     /\ lastCall.pre.multi_swap_state.v.swaps # <<>>)
    => /\ lastCall.post.multi_swap_state = lastCall.pre.multi_swap_state
       /\ storage.multi_swap_state = lastCall.pre.multi_swap_state

\* the record the emitter of the IBC transfer the last call resumed had to
\* keep: the fallback address of the swap call, and the channel and coin of
\* the transfer
C8_Expected ==
    LET m == lastCall.resumed.v.sub.msg IN
    [local_fallback_address |-> ResumedSwap.local_fallback_address,
     channel |-> m.source_channel,
     denom |-> m.token.v.denom,
     amount |-> m.token.v.amount]

\* C8: an IbcTransferReplyState exists only while the IBC transfer it was
\* created for is the sub-message awaiting its reply; the successful reply
\* finds it, empties the slot and stores the same record as
\* AwaitingIbcTransfer under the sequence number the reply carries.
C8_IbcHandOff ==
    /\ (lastCall.fn = "handle_ibc_transfer_reply" /\ lastCall.err = "" /\ lastCall.resumed # None)
       => LET seq == lastCall.args.reply.result.data.v.sequence IN
          /\ lastCall.pre.ibc_transfer_reply_state = Some(C8_Expected)
          /\ storage.ibc_transfer_reply_state = None
          /\ seq \in DOMAIN storage.awaiting_ibc_transfer
          /\ storage.awaiting_ibc_transfer[seq] = C8_Expected
    /\ storage.ibc_transfer_reply_state # None
       <=> (stack # <<>> /\ Top(stack).sub.msg.type = "MsgTransfer")

\* the reply of a transfer on channel ch2 was handled: the slot is empty and
\* the record is under sequence number 1
C8_Witness ==
    /\ lastCall.fn = "handle_ibc_transfer_reply"
    /\ lastCall.err = ""
    /\ lastCall.resumed # None
    /\ lastCall.pre.ibc_transfer_reply_state # None
    /\ lastCall.pre.ibc_transfer_reply_state.v.channel = "ch2"
    /\ storage.ibc_transfer_reply_state = None
    /\ 1 \in DOMAIN storage.awaiting_ibc_transfer
    /\ storage.awaiting_ibc_transfer[1] = lastCall.pre.ibc_transfer_reply_state.v

\* the map a serialized memo object decodes to
ParseMemo(text) ==
    [k \in {text.obj[i][1] : i \in DOMAIN text.obj} |->
        text.obj[CHOOSE i \in DOMAIN text.obj : text.obj[i][1] = k][2]]

\* the last call handled a successful swap reply for an IbcTransfer action
C9_IbcBranch ==
    /\ lastCall.fn = "handle_after_swap_action"
    /\ lastCall.args.reply.result.tag = "Ok"
    /\ lastCall.args.reply.result.data # None
    /\ lastCall.pre.swap_reply_state # None
    /\ lastCall.pre.swap_reply_state.v.after_swap_action.tag = "IbcTransfer"

C9_Memo == lastCall.pre.swap_reply_state.v.after_swap_action.next_memo

\* the memo M with ibc_callback set to the contract's address
C9_Injected(M) ==
    [k \in (DOMAIN M) \cup {"ibc_callback"} |->
        IF k = "ibc_callback" THEN env.contract.address ELSE M[k]]

\* the map half of C9: a memo that is a map, or absent, goes out with
\* ibc_callback set to the contract's address and its other keys unchanged
C9_MapMemo ==
    (C9_IbcBranch /\ (C9_Memo = None \/ C9_Memo.v.tag = "Map"))
    => /\ lastCall.err = ""
       /\ ParseMemo(lastCall.messages[1].msg.memo)
            = C9_Injected(IF C9_Memo = None THEN EmptyMap ELSE C9_Memo.v.m)

\* C9: in the IbcTransfer branch a memo that is a map (or absent, taken as
\* the empty map) goes out with the single key ibc_callback set to this
\* contract's address and every other key unchanged, and a memo that is not
\* a map makes the handler return the InvalidMemo error.
C9_MemoInjection ==
    /\ C9_MapMemo
    /\ (C9_IbcBranch /\ C9_Memo # None /\ C9_Memo.v.tag # "Map")
       => lastCall.err = "InvalidMemo"

\* where a failure raised above the frames stk ends: at the innermost call
\* made by a CustomCall target, which is undone alone, or else at the start
\* of the transaction
RECURSIVE C10_Scope(_, _)
C10_Scope(stk, start) ==
    IF stk = <<>>
    THEN [storage |-> start.storage, ibc_seq |-> start.ibc_seq, stack |-> <<>>]
    ELSE IF Top(stk).sub.msg.type = "ExtCall"
         THEN [storage |-> Top(stk).snap.storage, ibc_seq |-> Top(stk).snap.ibc_seq,
               stack |-> Front(stk)]
         ELSE C10_Scope(Front(stk), start)

\* C10 as claimed: when a call of an entry point returns an error, the four
\* storage regions are as they were before that call began and no message
\* is emitted.
C10_FailFastAtomicity ==
    (lastCall.fn # "none" /\ lastCall.err \notin {"", "Panic"})
    => /\ storage = lastCall.pre
       /\ lastCall.messages = <<>>

\* C10 as amended: when a call of an entry point fails, no message of it is
\* emitted and the four storage regions are as they were before the
\* enclosing top-level call began: the transaction, or the call a CustomCall
\* target made, which is undone with everything it set off.
C10_Amended ==
    (lastCall.fn # "none" /\ lastCall.err # "")
    => LET scope == C10_Scope(lastCall.base, tx.start) IN
       /\ lastCall.messages = <<>>
       /\ storage = scope.storage
       /\ ibc_seq = scope.ibc_seq
       /\ stack = scope.stack

\* the swap call of a multi-swap step returned an error after an earlier
\* step had stored an AwaitingIbcTransfer record: the record is gone with
\* the transaction
C10_Witness ==
    /\ lastCall.fn = "swap"
    /\ lastCall.err = "OsmosisRouterError"
    /\ lastCall.base # <<>>
    /\ lastCall.pre.multi_swap_state # None
    /\ lastCall.pre.awaiting_ibc_transfer # tx.start.storage.awaiting_ibc_transfer
    /\ storage = tx.start.storage
    /\ stack = <<>>

\* the last call was swap, made while no SwapReplyState existed
C11_SwapCall ==
    /\ lastCall.fn = "swap"
    /\ lastCall.pre.swap_reply_state = None

\* the last call stored the SwapReplyState with the values given and emitted
\* the pool-swap sub-message alone, tagged Swap, reply on success; the host
\* holds the message while the state is in storage
C11_Initiated ==
    /\ lastCall.err = ""
    /\ lastCall.post.swap_reply_state =
         Some([after_swap_action |-> lastCall.args.after_swap_action,
               local_fallback_address |-> lastCall.args.local_fallback_address])
    /\ Len(lastCall.messages) = 1
    /\ lastCall.messages[1].id = "Swap"
    /\ lastCall.messages[1].reply_on = "success"
    /\ lastCall.messages[1].msg.type = "MsgSwapExactAmountIn"
    /\ lastCall.messages[1].msg.token_in = lastCall.args.funds[1]
    /\ stack # <<>>
    /\ Top(stack).sub = lastCall.messages[1]
    /\ Top(stack).status = "pending"
    /\ storage.swap_reply_state = lastCall.post.swap_reply_state

\* the last call failed and wrote no SwapReplyState
C11_Refused(errs) ==
    /\ lastCall.err \in errs
    /\ lastCall.messages = <<>>
    /\ lastCall.post.swap_reply_state = None
    /\ storage.swap_reply_state = None

\* C11 as claimed: swap with no coin or several coins fails with an
\* invalid-input error and writes no SwapReplyState; swap with exactly one
\* coin while no SwapReplyState exists stores SwapReplyState with the given
\* action and fallback address and emits exactly one pool-swap sub-message
\* tagged Swap with reply on success, the state being stored when the
\* message is emitted.
C11_SwapInitiation ==
    C11_SwapCall
    => /\ Len(lastCall.args.funds) # 1 => C11_Refused({"NoFunds", "MultipleDenoms"})
       /\ Len(lastCall.args.funds) = 1 => C11_Initiated

\* C11 as amended: the second half holds for one coin of a non-zero amount
\* and a swap spec the router can build; a coin of amount zero and a spec
\* the router refuses make swap fail without writing SwapReplyState.
C11_Amended ==
    C11_SwapCall
    => /\ Len(lastCall.args.funds) # 1 => C11_Refused({"NoFunds", "MultipleDenoms"})
       /\ (/\ Len(lastCall.args.funds) = 1
           /\ lastCall.args.funds[1].amount > 0
           /\ lastCall.args.swap_msg.valid) => C11_Initiated
       /\ (/\ Len(lastCall.args.funds) = 1
           /\ lastCall.args.funds[1].amount = 0) => C11_Refused({"NoFunds"})
       /\ (/\ Len(lastCall.args.funds) = 1
           /\ lastCall.args.funds[1].amount > 0
           /\ ~lastCall.args.swap_msg.valid) => C11_Refused({"OsmosisRouterError"})

\* a swap with one coin, an IbcTransfer action and fallback address fb2 was
\* initiated
C11_Witness ==
    /\ C11_SwapCall
    /\ Len(lastCall.args.funds) = 1
    /\ lastCall.args.after_swap_action.tag = "IbcTransfer"
    /\ lastCall.args.local_fallback_address = "fb2"
    /\ C11_Initiated

\* a swap with two coins attached was refused
C11_WitnessRefused ==
    /\ C11_SwapCall
    /\ Len(lastCall.args.funds) = 2
    /\ C11_Refused({"MultipleDenoms"})


\* ----------------------------------------------------------- sizing claims
\* the turn of the loop made last, and the output it was quoted
C12_Last == est.tried[Len(est.tried)]
C12_LastOut == C12_Last.response.token_out_amount.amount

\* the realized price of the last turn and its deviation, as the loop
\* computes them
C12_Price == trade_price(C12_LastOut, C12_Last.amount).v
C12_Deviation == trade_price_deviation(est.spot_price, C12_Price).v

\* the scenario after its first turn: one million uosmo, reference price
\* 1.00, spot price 1.00, max_price_impact 0.05, and the pool has quoted
\* 0.97 times the input
C12_Scenario ==
    /\ est.args # None
    /\ est.args.v.input_coin = Coin("uosmo", 1000000)
    /\ est.args.v.twap_price = Dec(1, 1)
    /\ est.args.v.max_price_impact = Dec(5, 100)
    /\ est.spot_price = Dec(1, 1)
    /\ Len(est.tried) = 1
    /\ est.tried[1].response.err = ""
    /\ est.tried[1].response.token_out_amount.amount = (97 * 1000000) \div 100

\* the scenario's result: accepted in the first turn, nothing halved
C12_Accepted ==
    /\ est.pc = "done"
    /\ est.err = ""
    /\ est.k = 0
    /\ est.result = Some([amount_in |-> Coin("uosmo", 1000000),
                          amount_out |-> Coin("uusdc", 970000)])

\* C12 as claimed: in the scenario the first turn accepts with a deviation of
\* 0.03, within the bound 0.05, and returns amount_in = 1,000,000 and
\* amount_out = 970,000 without halving.
C12_ConcreteScenario ==
    C12_Scenario
    => /\ C12_Accepted
       /\ C12_Deviation = Dec(3, 100)
       /\ C12_Deviation <= Dec(5, 100)

\* C12 as amended: the first turn accepts and returns amount_in = 1,000,000
\* and amount_out = 970,000 without halving; the deviation it compares with
\* the bound 0.05 is (1.00 - 0.97) / 0.97, which is above 0.03.
C12_Amended ==
    C12_Scenario
    => /\ C12_Accepted
       /\ est.max_price_impact = Dec(5, 100)
       /\ C12_Price = Dec(97, 100)
       /\ C12_Deviation = dec_div(Dec(3, 100), Dec(97, 100)).v
       /\ C12_Deviation > Dec(3, 100)
       /\ C12_Deviation <= Dec(5, 100)

\* the scenario has returned its result
C12_Witness ==
    /\ C12_Scenario
    /\ C12_Accepted


\* the amount a halved k times, each time rounded down
RECURSIVE C13_Halved(_, _)
C13_Halved(a, k) == IF k = 0 THEN a ELSE C13_Halved(a \div 2, k - 1)

\* the deviation the loop computed in its i-th turn
C13_DeviationAt(i) ==
    trade_price_deviation(est.spot_price,
        trade_price(est.tried[i].response.token_out_amount.amount, est.tried[i].amount).v).v

\* what C13 says of a returned result apart from the quote being the one for
\* amount_in: amount_in is the input halved k times, amount_out is the
\* output quoted in the last turn, its deviation is within the bound, and
\* every candidate before it was quoted a deviation above the bound
C13_Search ==
    est.result # None
    => LET n == Len(est.tried) IN
       /\ n = est.k + 1
       /\ est.result.v.amount_in.denom = est.args.v.input_coin.denom
       /\ est.result.v.amount_in.amount = C13_Halved(est.args.v.input_coin.amount, est.k)
       /\ est.tried[n].amount = est.result.v.amount_in.amount
       /\ est.result.v.amount_out = est.tried[n].response.token_out_amount
       /\ C13_DeviationAt(n) <= est.max_price_impact
       /\ \A i \in 1..(n - 1) :
            /\ est.tried[i].amount = C13_Halved(est.args.v.input_coin.amount, i - 1)
            /\ C13_DeviationAt(i) > est.max_price_impact

\* C13: a returned amount_in is the original input halved k times, rounding
\* down; amount_out is the pool's quote for that amount_in, that is the
\* answer to an estimate request for the coin amount_in; the deviation of
\* amount_out / amount_in from the spot price is within the effective bound,
\* and every larger candidate had a deviation above it.
C13_MonotonicHalving ==
    /\ C13_Search
    /\ est.result # None
       => est.tried[Len(est.tried)].request.token_in = CoinText(est.result.v.amount_in)

\* a result was returned after two halvings
C13_Returned ==
    /\ est.result # None
    /\ est.k = 2
    /\ est.args.v.input_coin.amount = 4
    /\ est.result.v.amount_in.amount = 1


\* the output quoted in the i-th turn is zero
C14_ZeroAt(i) ==
    /\ est.tried[i].response.err = ""
    /\ est.tried[i].response.token_out_amount.amount = 0

\* C14: in whichever turn of the loop the quoted output is zero, the query
\* fails there with ZeroTokenOut (so only the last turn can have a zero
\* quote), and no returned result has amount_out = 0.
C14_ZeroQuote ==
    /\ \A i \in 1..Len(est.tried) :
         C14_ZeroAt(i) => /\ i = Len(est.tried)
                          /\ est.pc = "done"
                          /\ est.err = "ZeroTokenOut"
                          /\ est.result = None
    /\ est.result # None => est.result.v.amount_out.amount # 0

\* the pool quoted zero for the candidate reached after a halving, and the
\* query failed with ZeroTokenOut
C14_Witness ==
    /\ est.k >= 1
    /\ Len(est.tried) = est.k + 1
    /\ C14_ZeroAt(Len(est.tried))
    /\ est.tried[Len(est.tried)].amount > 0
    /\ est.err = "ZeroTokenOut"


\* the part before the loop has run with a spot price that was parsed
C15_SetupDone ==
    /\ est.args # None
    /\ est.tried = <<>>
    /\ est.err \notin {"Std", "InvalidSpotPrice"}

\* max_price_impact - (spot_price - reference_price) / reference_price, in
\* units of 10^-DecimalPlaces, as a signed number
C15_Bound ==
    est.args.v.max_price_impact
    - ((est.spot_price - est.args.v.twap_price) * DECIMAL_FRACTIONAL) \div est.args.v.twap_price

\* C15: for every max_price_impact, spot price and reference price > 0, a
\* spot price below the reference price included, the bound the search uses
\* is max_price_impact - (spot_price - reference_price) / reference_price,
\* and computing it neither wraps around nor aborts.
C15_EffectiveBound ==
    C15_SetupDone
    => /\ est.err = ""
       /\ est.max_price_impact = C15_Bound

\* the part of C15 that holds: with the spot price at or above the
\* reference price and the bound not below zero, the bound is as claimed
C15_Tightened ==
    (/\ C15_SetupDone
     /\ est.spot_price >= est.args.v.twap_price
     /\ C15_Bound >= 0)
    => /\ est.err = ""
       /\ est.max_price_impact = C15_Bound

\* a spot price below the reference price makes the query abort
C15_Abort ==
    (C15_SetupDone /\ est.spot_price < est.args.v.twap_price) => est.err = "Panic"


\* the output quoted in the i-th turn is not zero
C16_NonZeroAt(i) ==
    /\ est.tried[i].response.err = ""
    /\ est.tried[i].response.token_out_amount.amount > 0

\* C16: nothing bounds the loop but the candidate shrinking: after k turns
\* that neither returned nor failed the candidate is the input halved k
\* times, whatever k, and the search goes on; a candidate of amount zero
\* that is quoted a nonzero output is evaluated (the quotient of the output
\* by zero) and ends the query with neither a result nor ZeroTokenOut.
C16_SearchTermination ==
    /\ est.pc = "loop"
       => /\ Len(est.tried) = est.k
          /\ est.input_coin.amount = C13_Halved(est.args.v.input_coin.amount, est.k)
          /\ \A i \in 1..est.k : C16_NonZeroAt(i)
    /\ (/\ est.tried # <<>>
        /\ est.tried[Len(est.tried)].amount = 0
        /\ C16_NonZeroAt(Len(est.tried)))
       => /\ est.pc = "done"
          /\ est.result = None
          /\ est.err = "Panic"

\* an input above zero was halved down to zero with every quote nonzero,
\* and the candidate zero was evaluated
C16_Witness ==
    /\ est.args # None
    /\ est.args.v.input_coin.amount > 1
    /\ est.k >= 2
    /\ Len(est.tried) = est.k + 1
    /\ est.tried[Len(est.tried)].amount = 0
    /\ \A i \in 1..Len(est.tried) : C16_NonZeroAt(i)
    /\ est.result = None
    /\ est.err # "ZeroTokenOut"


\* ------------------------------------------------------- multi-swap claims
\* the queue handle_multiswap_reply found in its last invocation: the stored
\* one, or when it was invoked by handle_multiswap the one just stored
C17_Queue ==
    IF lastCall.fn = "handle_multiswap"
    THEN [swaps |-> Reverse(lastCall.args.swaps),
          local_fallback_address |-> lastCall.args.local_fallback_address]
    ELSE lastCall.pre.multi_swap_state.v

\* the last step invoked handle_multiswap_reply on a stored queue
C17_Invoked ==
    \/ lastCall.fn = "handle_multiswap" /\ lastCall.args.swaps # <<>>
    \/ lastCall.fn = "handle_multiswap_reply" /\ lastCall.pre.multi_swap_state # None

\* C17: an invocation of handle_multiswap_reply on a non-empty queue removes
\* the tail step alone, keeps the other steps, their order and the fallback
\* address, stores the shorter queue and emits exactly one self-addressed
\* SwapWithAction call tagged MultiSwap with the removed step's swap spec and
\* action and its amount_in as funds; on an empty queue it removes
\* MultiSwapState and emits nothing. Nothing else in storage changes.
C17_AdvanceStep ==
    C17_Invoked
    => LET q == C17_Queue
           n == Len(q.swaps)
       IN /\ lastCall.err = ""
          /\ storage = lastCall.post
          /\ lastCall.post = [lastCall.pre EXCEPT !.multi_swap_state = lastCall.post.multi_swap_state]
          /\ n = 0 => /\ lastCall.post.multi_swap_state = None
                      /\ lastCall.messages = <<>>
          /\ n > 0 =>
              /\ lastCall.post.multi_swap_state =
                   Some([swaps |-> [i \in 1..(n - 1) |-> q.swaps[i]],
                         local_fallback_address |-> q.local_fallback_address])
              /\ Len(lastCall.messages) = 1
              /\ lastCall.messages[1].id = "MultiSwap"
              /\ lastCall.messages[1].reply_on = "success"
              /\ lastCall.messages[1].msg =
                   [type |-> "WasmExecute",
                    contract_addr |-> env.contract.address,
                    msg |-> [json |-> [type |-> "SwapWithAction",
                                       swap_msg |-> q.swaps[n].swap_msg,
                                       after_swap_action |-> q.swaps[n].after_swap_action,
                                       local_fallback_address |-> q.local_fallback_address]],
                    funds |-> <<q.swaps[n].amount_in>>]
              /\ Top(stack).sub = lastCall.messages[1]
              /\ Top(stack).status = "pending"

\* a reply found a queue of two different steps and left the first of them
C17_Witness ==
    /\ lastCall.fn = "handle_multiswap_reply"
    /\ lastCall.err = ""
    /\ lastCall.pre.multi_swap_state # None
    /\ Len(lastCall.pre.multi_swap_state.v.swaps) = 2
    /\ lastCall.pre.multi_swap_state.v.swaps[1] # lastCall.pre.multi_swap_state.v.swaps[2]
    /\ storage.multi_swap_state # None
    /\ storage.multi_swap_state.v.swaps = <<lastCall.pre.multi_swap_state.v.swaps[1]>>

\* a reply found an empty queue and removed the record
C17_WitnessEmpty ==
    /\ lastCall.fn = "handle_multiswap_reply"
    /\ lastCall.err = ""
    /\ lastCall.pre.multi_swap_state # None
    /\ lastCall.pre.multi_swap_state.v.swaps = <<>>
    /\ storage.multi_swap_state = None
    /\ lastCall.messages = <<>>


\* the last call was the swap call of a multi-swap step: swap run for a
\* self-addressed sub-message
C18_StepSwap ==
    /\ lastCall.fn = "swap"
    /\ lastCall.base # <<>>
    /\ IsSelfCall(Top(lastCall.base))
    /\ Top(lastCall.base).sub.id = "MultiSwap"

\* C18: the swap call of every multi-swap step finds the SwapReplyState slot
\* empty and does not fail with ContractLocked, whatever the step before it
\* did, and when the transaction of a multi-swap is over the slot is empty.
C18_LockNotLeaked ==
    /\ C18_StepSwap
       => /\ lastCall.pre.swap_reply_state = None
          /\ lastCall.err # "ContractLocked"
    /\ (tx.kind = "multiswap" /\ stack = <<>>) => storage.swap_reply_state = None

\* the third step's swap call succeeded on an empty slot after the steps
\* before it had run
C18_Witness ==
    /\ C18_StepSwap
    /\ tx.kind = "multiswap"
    /\ tx.replies = 2
    /\ tx.steps[2].after_swap_action.tag = "IbcTransfer"
    /\ lastCall.base = <<Top(lastCall.base)>>
    /\ lastCall.pre.swap_reply_state = None
    /\ lastCall.err = ""
    /\ storage.swap_reply_state # None

\* a three-step multi-swap is over and the slot is empty
C18_WitnessDone ==
    /\ tx.kind = "multiswap"
    /\ Len(tx.steps) = 3
    /\ tx.replies = 3
    /\ stack = <<>>
    /\ storage.swap_reply_state = None
    /\ storage.multi_swap_state = None


\* the multi-swap of the transaction has drained: no MultiSwapState, after
\* as many swap calls as it has steps and one invocation of
\* handle_multiswap_reply more (the one at the start and one for each
\* reply), and no sub-message is left
C19_Drained ==
    /\ tx.kind = "multiswap"
    /\ storage.multi_swap_state = None
    /\ tx.emitted = Len(tx.steps)
    /\ tx.replies + 1 = Len(tx.steps) + 1
    /\ stack = <<>>

\* C19: a multi-swap of n >= 1 steps whose sub-messages all succeed and
\* whose replies are all delivered reaches a state without MultiSwapState,
\* after exactly n swap calls and n + 1 invocations of
\* handle_multiswap_reply, and stays there: nothing is emitted afterwards.
C19_DrainLiveness ==
    (tx.kind = "multiswap") ~> [](C19_Drained)

\* while the flow runs as many swap calls have been emitted as replies
\* handled plus one, at most n, and the record exists
C19_Running ==
    (tx.kind = "multiswap" /\ stack # <<>>)
    => /\ tx.emitted = tx.replies + 1
       /\ tx.emitted <= Len(tx.steps)

\* a three-step multi-swap has drained
C19_Witness ==
    /\ C19_Drained
    /\ Len(tx.steps) = 3


\* the last call handled the successful reply of an IBC transfer
C20_TransferReply ==
    /\ lastCall.fn = "handle_ibc_transfer_reply"
    /\ lastCall.err = ""
    /\ lastCall.resumed # None

\* the sequence number that reply carries
C20_Sequence == lastCall.args.reply.result.data.v.sequence

\* what the record of that transfer is to carry: the fallback address given
\* when the swap was initiated, the channel of its action and the coin the
\* MsgTransfer sends, which is the swap's output coin
C20_Record ==
    LET m == lastCall.resumed.v.sub.msg IN
    [local_fallback_address |-> lastCall.resumed.v.by.args.local_fallback_address,
     channel |-> lastCall.resumed.v.by.args.after_swap_action.channel,
     denom |-> m.token.v.denom,
     amount |-> m.token.v.amount]

\* the record stored for the transfer whose reply was handled is the record
\* of that transfer
C20_StoredRecord ==
    C20_TransferReply
    => /\ C20_Sequence \in DOMAIN storage.awaiting_ibc_transfer
       /\ storage.awaiting_ibc_transfer[C20_Sequence] = C20_Record

\* the records of the transfers sent before are still the ones stored
C20_EarlierRecordsKept ==
    C20_TransferReply
    => \A s \in DOMAIN lastCall.pre.awaiting_ibc_transfer :
          /\ s \in DOMAIN storage.awaiting_ibc_transfer
          /\ storage.awaiting_ibc_transfer[s] = lastCall.pre.awaiting_ibc_transfer[s]

\* a transfer's IbcTransferReplyState is stored into an empty slot and is
\* the one its reply finds
C20_SlotNotOverwritten ==
    /\ (lastCall.fn = "handle_after_swap_action" /\ lastCall.err = ""
        /\ lastCall.post.ibc_transfer_reply_state # None)
       => lastCall.pre.ibc_transfer_reply_state = None
    /\ C20_TransferReply => lastCall.pre.ibc_transfer_reply_state = Some(C20_Record)

\* C20: the AwaitingIbcTransfer record under sequence number s carries the
\* fallback address, channel, denom and amount of the transfer with that
\* sequence number, for every transfer sent, and the IbcTransferReplyState
\* slot is not overwritten before the reply of its transfer has consumed it.
C20_IbcRecordIntegrity ==
    /\ C20_StoredRecord
    /\ C20_EarlierRecordsKept
    /\ C20_SlotNotOverwritten

\* a transfer on channel ch2 got the sequence number of an earlier transfer
\* on channel ch1, whose record it replaced
C20_Collision ==
    /\ C20_TransferReply
    /\ C20_Record.channel = "ch2"
    /\ C20_Sequence \in DOMAIN lastCall.pre.awaiting_ibc_transfer
    /\ lastCall.pre.awaiting_ibc_transfer[C20_Sequence].channel = "ch1"


====
